---- MODULE Spec2Model ----
(***************************************************************************)
(* Model of the Ollama relay of NextChat:                                  *)
(*   - the server route  src/app/api/ollama/route.ts  (requestOllama),     *)
(*   - the client        src/app/client/platforms/ollama.ts (OllamaApi).   *)
(* Text is a sequence of one-character tokens.  A JSON object is written   *)
(* "{" kind content... flag "}" : kind says which shape the object has     *)
(* ("m" = Ollama record {message:{content},done}, "c" = OpenAI chunk       *)
(* {choices:[{delta:{content},finish_reason}]}, "r" = OpenAI completion    *)
(* {choices:[{message:{content}}]}, "o" = any other object such as an      *)
(* error body), content is the content string, flag is done/finish_reason. *)
(***************************************************************************)
EXTENDS Integers, Sequences, FiniteSets, TLC

\* ---------------------------------------------------------------- bounds
\* Number of lines the backend writes in one streamed exchange.
MaxLines == 2
\* Number of server-sent messages in a response the client reads.
MaxMsgs == 2

\* ------------------------------------------------------------------ text
Letters == {"a", "b"}
Kinds == {"m", "c", "r", "o"}
Flags == {"T", "F"}
NL == "\n"
Contents == {<<>>, <<"a">>, <<"b">>}

RECURSIVE Concat(_)
\* Concatenation of a sequence of texts.
Concat(ts) ==
  IF ts = <<>> THEN <<>> ELSE Head(ts) \o Concat(Tail(ts))

RECURSIVE Join(_, _)
\* Array.prototype.join: the texts of ts with sep between neighbours.
Join(ts, sep) ==
  IF ts = <<>> THEN <<>>
  ELSE IF Len(ts) = 1 THEN ts[1]
  ELSE ts[1] \o sep \o Join(Tail(ts), sep)

\* JSON.stringify of an object of the given shape.
JSONStringify(j) ==
  <<"{", j.kind>> \o j.content \o <<(IF j.flag THEN "T" ELSE "F"), "}">>

\* Whether JSON.parse accepts the text (it throws SyntaxError otherwise).
JSONValid(t) ==
  /\ Len(t) >= 4
  /\ t[1] = "{"
  /\ t[2] \in Kinds
  /\ t[Len(t)] = "}"
  /\ t[Len(t) - 1] \in Flags
  /\ \A i \in 3..(Len(t) - 2) : t[i] \in Letters

\* JSON.parse of a text JSONValid accepts.
JSONParse(t) ==
  [kind |-> t[2], content |-> SubSeq(t, 3, Len(t) - 2), flag |-> (t[Len(t) - 1] = "T")]

RECURSIVE Split(_, _)
\* String.prototype.split(sep) for a one-character separator.
Split(t, sep) ==
  IF \A i \in 1..Len(t) : t[i] # sep THEN <<t>>
  ELSE LET k == CHOOSE i \in 1..Len(t) : t[i] = sep /\ \A j \in 1..(i - 1) : t[j] # sep
       IN <<SubSeq(t, 1, k - 1)>> \o Split(SubSeq(t, k + 1, Len(t)), sep)

\* line.trim() is truthy: the line has a character that is not white space.
NonBlank(line) == \E i \in 1..Len(line) : line[i] # NL /\ line[i] # " "

\* chunk.split('\n').filter(line => line.trim())
ChunkLines(chunk) == SelectSeq(Split(chunk, NL), NonBlank)

\* ------------------------------------------------------------- variables
VARIABLES
  backendLines,  \* the lines the backend writes in this exchange (fixed at start)
  body,          \* server: bytes of the backend response body not yet read
  spc,           \* server: position of requestOllama's stream start()
  out,           \* server: the chunks enqueued on the output stream, in order
  relayed,       \* server: contents of the lines JSON.parse accepted inside the for loop
  jsonResponse,  \* server: the body returned by a stream=false call on the same content
  cpc,           \* client: position of chat()
  shouldStream,  \* client: !!options.config.stream
  wired,         \* client: whether the response read is the server relay's output
  res,           \* client: the response (status, content type, body text)
  msgIdx,        \* client: number of messages of the body already handed to onmessage
  responseText,  \* client: the closure variable responseText
  finished,      \* client: the closure variable finished
  aborted,       \* client: controller.signal.aborted
  timerArmed,    \* client: requestTimeoutId is pending
  onFinishCalls, \* client: the arguments of the options.onFinish calls, in order
  onUpdateCalls, \* client: the arguments of the options.onUpdate calls, in order
  onErrorCalls,  \* client: number of options.onError calls
  handled,       \* client: the message data onmessage handled before finished was set
  entry,         \* server: how the request came in ("route" = GET/POST, "requestOllama")
  authCalls,     \* server: the results of the auth(req, serverConfig) calls, in order
  backendRequests, \* server: number of fetch calls to the backend
  response,      \* server: the response returned to the caller (status, shape)
  sTimerArmed,   \* server: timeoutId is pending
  reqStream,     \* server: requestBody.stream as asked and ollamaRequest.stream
  backendStatus, \* server: res.status of the backend response (0 before it)
  failure,       \* server: the rejection the catch block caught ("fetch", "read")
  request,       \* client: requestPayload of the call (stream, max_tokens)
  xs,            \* two concurrent chat() calls: the closure state of each
  cells          \* two concurrent chat() calls: the responseText variables

serverVars == <<backendLines, body, spc, out, relayed, jsonResponse>>
clientVars == <<cpc, shouldStream, wired, res, msgIdx, responseText, finished, aborted,
                timerArmed, onFinishCalls, onUpdateCalls, onErrorCalls, handled>>
prefixVars == <<entry, authCalls, backendRequests, response, sTimerArmed, reqStream,
                backendStatus, failure>>
pairVars == <<xs, cells>>
extraVars == <<prefixVars, request, pairVars>>
vars == <<backendLines, body, spc, out, relayed, jsonResponse,
          cpc, shouldStream, wired, res, msgIdx, responseText, finished, aborted,
          timerArmed, onFinishCalls, onUpdateCalls, onErrorCalls, handled,
          entry, authCalls, backendRequests, response, sTimerArmed, reqStream,
          backendStatus, failure, request, xs, cells>>

\* ------------------------------------------------- server: requestOllama
\* One line of the backend's newline-delimited body: an Ollama record.
OllamaRecord(c, d) == JSONStringify([kind |-> "m", content |-> c, flag |-> d])

\* A line that is not JSON.
Malformed == <<"x">>

BackendLineSet ==
  {OllamaRecord(c, d) : c \in Contents, d \in BOOLEAN} \cup {Malformed}

RECURSIVE SeqsUpTo(_, _)
\* The sequences over S of length at most n.
SeqsUpTo(S, n) ==
  IF n = 0 THEN {<<>>}
  ELSE LET shorter == SeqsUpTo(S, n - 1)
       IN shorter \cup {Append(s, x) : s \in {t \in shorter : Len(t) = n - 1}, x \in S}

\* The wire form of the backend body: every line followed by a newline.
Wire(lines) == Concat([i \in 1..Len(lines) |-> lines[i] \o <<NL>>])

\* data.message?.content || ""
MessageContent(data) == IF data.kind = "m" THEN data.content ELSE <<>>

\* An openAIChunk whose finish_reason is null on every record.
OpenAIChunkNeverStops(data) ==
  [kind |-> "c", content |-> MessageContent(data), flag |-> FALSE]

\* The openAIChunk built from a parsed backend record.
OpenAIChunk(data) ==
  [kind |-> "c", content |-> MessageContent(data), flag |-> data.flag]

\* `data: ${JSON.stringify(openAIChunk)}\n\n`
FormattedChunk(data) == <<"data: ">> \o JSONStringify(OpenAIChunk(data)) \o <<NL, NL>>

\* "data: [DONE]\n\n"
DoneChunk == <<"data: ", "[DONE]", NL, NL>>

RECURSIVE ForLinesStopOnError(_)
\* A for loop whose try/catch is around the loop instead of inside it: the
\* first line JSON.parse rejects ends the processing of the chunk.
ForLinesStopOnError(lines) ==
  IF lines = <<>> THEN <<>>
  ELSE IF ~JSONValid(Head(lines)) THEN <<>>
  ELSE LET data == JSONParse(Head(lines))
       IN IF data.flag THEN <<FormattedChunk(data), DoneChunk>>
          ELSE <<FormattedChunk(data)>> \o ForLinesStopOnError(Tail(lines))

RECURSIVE ForLines(_)
\* The for loop over the lines of one chunk: what it enqueues.  A line that
\* JSON.parse rejects is caught and skipped; a record with done set enqueues
\* the sentinel and breaks out of the for loop.
ForLines(lines) ==
  IF lines = <<>> THEN <<>>
  ELSE IF ~JSONValid(Head(lines)) THEN ForLines(Tail(lines))
  ELSE LET data == JSONParse(Head(lines))
       IN IF data.flag THEN <<FormattedChunk(data), DoneChunk>>
          ELSE <<FormattedChunk(data)>> \o ForLines(Tail(lines))

\* Contents of the lines of one chunk that JSON.parse accepted before the for
\* loop ended (at the end of the lines, or at the first record with done set).
AcceptedContents(lines) ==
  LET ok == SelectSeq(lines, JSONValid)
      isDone(l) == JSONParse(l).flag
      stop == IF \E i \in 1..Len(ok) : isDone(ok[i])
              THEN CHOOSE i \in 1..Len(ok) : isDone(ok[i]) /\ \A j \in 1..(i - 1) : ~isDone(ok[j])
              ELSE Len(ok)
  IN [i \in 1..stop |-> MessageContent(JSONParse(ok[i]))]

\* reader.read() returns the next n bytes; the chunk is decoded (the bytes
\* are single-byte characters, which TextDecoder maps to themselves), split
\* into lines and relayed.  The while loop then reads again.
RelayRead(n) ==
  /\ spc = "reading"
  /\ n \in 1..Len(body)
  /\ LET chunk == SubSeq(body, 1, n)
         lines == ChunkLines(chunk)
     IN /\ out' = out \o ForLines(lines)
        /\ relayed' = relayed \o AcceptedContents(lines)
  /\ body' = SubSeq(body, n + 1, Len(body))
  /\ UNCHANGED <<backendLines, spc, jsonResponse>>
  /\ UNCHANGED clientVars
  /\ UNCHANGED extraVars

\* reader.read() returns done: controller.close().
RelayClose ==
  /\ spc = "reading"
  /\ body = <<>>
  /\ spc' = "closed"
  /\ UNCHANGED <<backendLines, body, out, relayed, jsonResponse>>
  /\ UNCHANGED clientVars
  /\ UNCHANGED extraVars

\* reader.read() rejects: controller.error(error).
RelayError ==
  /\ spc = "reading"
  /\ spc' = "errored"
  /\ UNCHANGED <<backendLines, body, out, relayed, jsonResponse>>
  /\ UNCHANGED clientVars
  /\ UNCHANGED extraVars

\* The records among the backend's lines.
Records(lines) == SelectSeq(lines, JSONValid)

\* The body a stream=false backend call returns for the same content: one
\* JSON document whose message.content is the whole text.
BackendDocument(lines) ==
  OllamaRecord(Concat([i \in 1..Len(Records(lines)) |->
                         MessageContent(JSONParse(Records(lines)[i]))]), TRUE)

\* The non-streaming branch: res.json(), then the openAIResponse.
OpenAIResponse(doc) ==
  JSONStringify([kind |-> "r", content |-> MessageContent(JSONParse(doc)), flag |-> TRUE])

\* requestOllama with stream=false on the same backend content.
RespondJson ==
  /\ spc \in {"reading", "closed", "errored"}
  /\ jsonResponse = <<>>
  /\ jsonResponse' = OpenAIResponse(BackendDocument(backendLines))
  /\ UNCHANGED <<backendLines, body, spc, out, relayed>>
  /\ UNCHANGED clientVars
  /\ UNCHANGED extraVars

\* ------------------------------------------------- client: OllamaApi.chat
\* Locale.Error.Unauthorized, the localized notice.
Unauthorized == <<"Unauthorized">>

\* EventStreamContentType of the event-source library.
EventStreamContentType == "text/event-stream"

ContentTypes == {EventStreamContentType, "text/plain; charset=utf-8", "application/json"}

\* contentType?.startsWith("text/plain")
StartsWithTextPlain(ctype) == ctype \in {"text/plain", "text/plain; charset=utf-8"}

\* contentType?.startsWith(EventStreamContentType)
StartsWithEventStream(ctype) == ctype = EventStreamContentType

Statuses == {200, 401, 500}

\* Response.ok
ResOk(r) == r.status >= 200 /\ r.status <= 299

\* One server-sent message with the given data.
Frame(data) == <<"data: ">> \o data \o <<NL, NL>>

\* The data of the messages a body can carry: the sentinel, a chunk with a
\* delta, and text that is not JSON.
MsgDataSet ==
  {<<"[DONE]">>, Malformed}
    \cup {JSONStringify([kind |-> "c", content |-> c, flag |-> FALSE]) : c \in Contents}

\* Bodies that are no event stream: an error object, a completion, plain text.
PlainBodySet ==
  {JSONStringify([kind |-> "o", content |-> <<>>, flag |-> TRUE]), <<"x", "x">>}
    \cup {JSONStringify([kind |-> "r", content |-> c, flag |-> TRUE]) : c \in Contents}

BodySet ==
  {Concat([i \in 1..Len(ms) |-> Frame(ms[i])]) : ms \in SeqsUpTo(MsgDataSet, MaxMsgs)}
    \cup PlainBodySet

ResponseSet == [status : Statuses, ctype : ContentTypes, body : BodySet]

NoResponse == [status |-> 0, ctype |-> "", body |-> <<>>]

\* The response requestOllama's streaming branch returns (its headers).
RelayResponse == [status |-> 200, ctype |-> "text/plain; charset=utf-8", body |-> <<>>]

\* The text of the response body received so far.
BodyText == IF wired THEN Concat(out) ELSE res.body

\* The response body has been received to its end.
BodyComplete == IF wired THEN spc = "closed" ELSE TRUE

\* The transport can fail now: any time for a remote peer, and for the relay
\* when its output stream has been errored.
BodyCanFail == IF wired THEN spc = "errored" ELSE TRUE

RECURSIVE SSEMessages(_)
\* The event-source library's parse of a body: every blank line dispatches a
\* message whose data is the text of the data field before it.
SSEMessages(t) ==
  IF ~\E i \in 1..(Len(t) - 1) : t[i] = NL /\ t[i + 1] = NL THEN <<>>
  ELSE LET k == CHOOSE i \in 1..(Len(t) - 1) :
                  /\ t[i] = NL /\ t[i + 1] = NL
                  /\ \A j \in 1..(i - 1) : ~(t[j] = NL /\ t[j + 1] = NL)
           frame == SubSeq(t, 1, k - 1)
           data == IF frame # <<>> /\ frame[1] = "data: " THEN Tail(frame) ELSE <<>>
       IN <<data>> \o SSEMessages(SubSeq(t, k + 2, Len(t)))

\* json.choices?.at(0)?.delta?.content of a parsed message; empty when absent.
DeltaContent(json) == IF json.kind = "c" THEN json.content ELSE <<>>

\* extractMessage: res.choices?.at(0)?.message?.content ?? ""
extractMessage(json) == IF json.kind = "r" THEN json.content ELSE <<>>

\* prettyObject of utils/format: the object as a fenced JSON block.
prettyObject(json) == <<"[json", NL>> \o JSONStringify(json) \o <<NL, "json]">>

\* A finish() that calls options.onFinish whatever the flag says.
finishUnguarded(fin, calls, text) == Append(calls, text)

\* A finish() that hands over an empty text instead of responseText.
finishEmpty(fin, calls, text) == IF ~fin THEN Append(calls, <<>>) ELSE calls

\* finish(): the onFinish calls after it, given the flag, the calls so far
\* and responseText.  The flag is set afterwards in every case.
finish(fin, calls, text) == IF ~fin THEN Append(calls, text) ELSE calls

\* What controller.abort() does on a signal that is not yet aborted: in
\* streaming mode signal.onabort = finish runs and the event-source library
\* resolves without calling a handler; in non-streaming mode the pending
\* fetch or res.json() rejects and the catch block reports the error.
\* A pending res.clone().json() of onopen is inside a try with an empty
\* catch, so onopen's continuation still runs.
AbortEffects ==
  /\ aborted' = TRUE
  /\ IF shouldStream
     THEN /\ onFinishCalls' = finish(finished, onFinishCalls, responseText)
          /\ finished' = TRUE
          /\ cpc' = IF cpc \in {"fetch", "open_text", "open_err_text", "stream"}
                    THEN "aborted" ELSE cpc
          /\ UNCHANGED onErrorCalls
     ELSE /\ IF cpc \in {"fetch", "ns_json"}
             THEN cpc' = "failed" /\ onErrorCalls' = onErrorCalls + 1
             ELSE UNCHANGED <<cpc, onErrorCalls>>
          /\ UNCHANGED <<onFinishCalls, finished>>
  /\ UNCHANGED <<shouldStream, wired, res, msgIdx, responseText, onUpdateCalls, handled>>

\* The caller aborts through the controller passed to options.onController.
Abort ==
  /\ cpc # "idle"
  /\ ~aborted
  /\ AbortEffects
  /\ UNCHANGED timerArmed
  /\ UNCHANGED serverVars
  /\ UNCHANGED extraVars

\* requestTimeoutId fires: controller.abort(), a no-op on an aborted signal.
Timeout ==
  /\ timerArmed
  /\ timerArmed' = FALSE
  /\ IF aborted
     THEN UNCHANGED <<cpc, shouldStream, wired, res, msgIdx, responseText, finished, aborted,
                      onFinishCalls, onUpdateCalls, onErrorCalls, handled>>
     ELSE AbortEffects
  /\ UNCHANGED serverVars
  /\ UNCHANGED extraVars

\* The response arrives in streaming mode and onopen runs up to its first
\* await: the timer is cleared and the content type and status pick a branch.
onopen ==
  /\ cpc = "fetch"
  /\ shouldStream
  /\ \E r \in (IF wired THEN {RelayResponse} ELSE ResponseSet) :
       /\ res' = r
       /\ cpc' = IF StartsWithTextPlain(r.ctype) THEN "open_text"
                 ELSE IF ~ResOk(r) \/ ~StartsWithEventStream(r.ctype) \/ r.status # 200
                      THEN "open_err_text"
                      ELSE "stream"
  /\ timerArmed' = FALSE
  /\ UNCHANGED <<shouldStream, wired, msgIdx, responseText, finished, aborted,
                 onFinishCalls, onUpdateCalls, onErrorCalls, handled>>
  /\ UNCHANGED serverVars
  /\ UNCHANGED extraVars

\* onopen, text/plain branch: res.clone().text() resolves with the whole
\* body, which becomes responseText, and finish() runs.  The library then
\* goes on to read the body.
onopenTextPlain ==
  /\ cpc = "open_text"
  /\ BodyComplete
  /\ responseText' = BodyText
  /\ onFinishCalls' = finish(finished, onFinishCalls, BodyText)
  /\ finished' = TRUE
  /\ cpc' = "stream"
  /\ UNCHANGED <<shouldStream, wired, res, msgIdx, aborted, timerArmed,
                 onUpdateCalls, onErrorCalls, handled>>
  /\ UNCHANGED serverVars
  /\ UNCHANGED extraVars

\* onopen, error branch: res.clone().text() resolves (extraInfo).
onopenErrorText ==
  /\ cpc = "open_err_text"
  /\ BodyComplete
  /\ cpc' = "open_err_json"
  /\ UNCHANGED <<shouldStream, wired, res, msgIdx, responseText, finished, aborted, timerArmed,
                 onFinishCalls, onUpdateCalls, onErrorCalls, handled>>
  /\ UNCHANGED serverVars
  /\ UNCHANGED extraVars

\* The responseText the error branch of onopen builds from extraInfo.
ErrorText(extraInfo) ==
  Join(<<responseText>> \o (IF res.status = 401 THEN <<Unauthorized>> ELSE <<>>)
         \o <<extraInfo>>, <<NL, NL>>)

\* onopen, error branch: res.clone().json() settles; extraInfo becomes the
\* pretty-printed object when it resolved and stays the body text when it
\* threw (the body is not JSON, or the signal was aborted meanwhile).  Then
\* responseText is joined and finish() runs.
onopenErrorJson ==
  /\ cpc = "open_err_json"
  /\ \E parsed \in BOOLEAN :
       /\ parsed => JSONValid(BodyText)
       /\ ~parsed => (~JSONValid(BodyText) \/ aborted)
       /\ LET extraInfo == IF parsed THEN prettyObject(JSONParse(BodyText)) ELSE BodyText
          IN /\ responseText' = ErrorText(extraInfo)
             /\ onFinishCalls' = finish(finished, onFinishCalls, ErrorText(extraInfo))
  /\ finished' = TRUE
  /\ cpc' = IF aborted THEN "aborted" ELSE "stream"
  /\ UNCHANGED <<shouldStream, wired, res, msgIdx, aborted, timerArmed,
                 onUpdateCalls, onErrorCalls, handled>>
  /\ UNCHANGED serverVars
  /\ UNCHANGED extraVars

\* An onmessage that tests only for the sentinel, not for finished.
onmessageIgnoresFinished ==
  /\ cpc = "stream"
  /\ msgIdx < Len(SSEMessages(BodyText))
  /\ msgIdx' = msgIdx + 1
  /\ LET data == SSEMessages(BodyText)[msgIdx + 1]
     IN IF data = <<"[DONE]">>
        THEN /\ onFinishCalls' = finish(finished, onFinishCalls, responseText)
             /\ finished' = TRUE
             /\ UNCHANGED <<responseText, onUpdateCalls, handled>>
        ELSE /\ handled' = Append(handled, data)
             /\ IF JSONValid(data) /\ DeltaContent(JSONParse(data)) # <<>>
                THEN LET delta == DeltaContent(JSONParse(data))
                     IN /\ responseText' = responseText \o delta
                        /\ onUpdateCalls' =
                             Append(onUpdateCalls, [text |-> responseText \o delta, delta |-> delta])
                ELSE UNCHANGED <<responseText, onUpdateCalls>>
             /\ UNCHANGED <<onFinishCalls, finished>>
  /\ UNCHANGED <<cpc, shouldStream, wired, res, aborted, timerArmed, onErrorCalls>>
  /\ UNCHANGED serverVars
  /\ UNCHANGED extraVars

\* The library hands the next message of the body to onmessage.
onmessage ==
  /\ cpc = "stream"
  /\ msgIdx < Len(SSEMessages(BodyText))
  /\ msgIdx' = msgIdx + 1
  /\ LET data == SSEMessages(BodyText)[msgIdx + 1]
     IN IF data = <<"[DONE]">> \/ finished
        THEN /\ onFinishCalls' = finish(finished, onFinishCalls, responseText)
             /\ finished' = TRUE
             /\ UNCHANGED <<responseText, onUpdateCalls, handled>>
        ELSE /\ handled' = Append(handled, data)
             /\ IF JSONValid(data) /\ DeltaContent(JSONParse(data)) # <<>>
                THEN LET delta == DeltaContent(JSONParse(data))
                     IN /\ responseText' = responseText \o delta
                        /\ onUpdateCalls' =
                             Append(onUpdateCalls, [text |-> responseText \o delta, delta |-> delta])
                ELSE UNCHANGED <<responseText, onUpdateCalls>>
             /\ UNCHANGED <<onFinishCalls, finished>>
  /\ UNCHANGED <<cpc, shouldStream, wired, res, aborted, timerArmed, onErrorCalls>>
  /\ UNCHANGED serverVars
  /\ UNCHANGED extraVars

\* The body ends and every message has been handled: onclose runs finish().
onclose ==
  /\ cpc = "stream"
  /\ BodyComplete
  /\ msgIdx = Len(SSEMessages(BodyText))
  /\ onFinishCalls' = finish(finished, onFinishCalls, responseText)
  /\ finished' = TRUE
  /\ cpc' = "closed"
  /\ UNCHANGED <<shouldStream, wired, res, msgIdx, responseText, aborted, timerArmed,
                 onUpdateCalls, onErrorCalls, handled>>
  /\ UNCHANGED serverVars
  /\ UNCHANGED extraVars

\* The transport fails in streaming mode (fetch rejects, a body read fails,
\* res.clone().text() of onopen rejects): onerror reports it through
\* options.onError and rethrows, which ends the event source.
onerror ==
  /\ shouldStream
  /\ cpc \in {"fetch", "open_text", "open_err_text", "stream"}
  /\ cpc = "fetch" \/ BodyCanFail
  /\ onErrorCalls' = onErrorCalls + 1
  /\ cpc' = "failed"
  /\ UNCHANGED <<shouldStream, wired, res, msgIdx, responseText, finished, aborted, timerArmed,
                 onFinishCalls, onUpdateCalls, handled>>
  /\ UNCHANGED serverVars
  /\ UNCHANGED extraVars

\* Non-streaming mode: fetch resolves and the timer is cleared.
fetchResolved ==
  /\ cpc = "fetch"
  /\ ~shouldStream
  /\ \E r \in ResponseSet : res' = r
  /\ timerArmed' = FALSE
  /\ cpc' = "ns_json"
  /\ UNCHANGED <<shouldStream, wired, msgIdx, responseText, finished, aborted,
                 onFinishCalls, onUpdateCalls, onErrorCalls, handled>>
  /\ UNCHANGED serverVars
  /\ UNCHANGED extraVars

\* Non-streaming mode: res.json() resolves, extractMessage, options.onFinish.
fetchJson ==
  /\ cpc = "ns_json"
  /\ JSONValid(res.body)
  /\ onFinishCalls' = Append(onFinishCalls, extractMessage(JSONParse(res.body)))
  /\ cpc' = "ns_done"
  /\ UNCHANGED <<shouldStream, wired, res, msgIdx, responseText, finished, aborted, timerArmed,
                 onUpdateCalls, onErrorCalls, handled>>
  /\ UNCHANGED serverVars
  /\ UNCHANGED extraVars

\* Non-streaming mode: fetch or res.json() rejects (transport failure, or a
\* body that is not JSON); the catch block calls options.onError.
chatCatch ==
  /\ ~shouldStream
  /\ cpc \in {"fetch", "ns_json"}
  /\ onErrorCalls' = onErrorCalls + 1
  /\ cpc' = "failed"
  /\ UNCHANGED <<shouldStream, wired, res, msgIdx, responseText, finished, aborted, timerArmed,
                 onFinishCalls, onUpdateCalls, handled>>
  /\ UNCHANGED serverVars
  /\ UNCHANGED extraVars

\* ------------------------------------------------------- specifications
ServerIdle ==
  /\ backendLines = <<>>
  /\ body = <<>>
  /\ spc = "idle"
  /\ out = <<>>
  /\ relayed = <<>>
  /\ jsonResponse = <<>>

\* requestOllama has fetched the backend with stream on and start() runs.
ServerStart ==
  /\ backendLines \in SeqsUpTo(BackendLineSet, MaxLines)
  /\ body = Wire(backendLines)
  /\ spc = "reading"
  /\ out = <<>>
  /\ relayed = <<>>
  /\ jsonResponse = <<>>

ClientIdle ==
  /\ cpc = "idle"
  /\ shouldStream = TRUE
  /\ wired = FALSE
  /\ res = NoResponse
  /\ msgIdx = 0
  /\ responseText = <<>>
  /\ finished = FALSE
  /\ aborted = FALSE
  /\ timerArmed = FALSE
  /\ onFinishCalls = <<>>
  /\ onUpdateCalls = <<>>
  /\ onErrorCalls = 0
  /\ handled = <<>>

\* chat() has armed the timer and sent the request.
ClientStart(w) ==
  /\ cpc = "fetch"
  /\ shouldStream \in (IF w THEN {TRUE} ELSE BOOLEAN)
  /\ wired = w
  /\ res = NoResponse
  /\ msgIdx = 0
  /\ responseText = <<>>
  /\ finished = FALSE
  /\ aborted = FALSE
  /\ timerArmed = TRUE
  /\ onFinishCalls = <<>>
  /\ onUpdateCalls = <<>>
  /\ onErrorCalls = 0
  /\ handled = <<>>

\* --------------------------------------- server: the route and the prefix
Exchanges == {1, 2}

NoServerResponse == [status |-> 0, kind |-> "none"]

NoRequestBody == [asked |-> "none", stream |-> FALSE]

\* No call has built a payload.
NoRequest == [stream |-> "none", max_tokens |-> [t |-> "none", v |-> 0]]

\* Neither side has been called yet.
Quiet ==
  /\ spc = "idle"
  /\ cpc = "idle"
  /\ entry = "none"
  /\ request = NoRequest
  /\ \A i \in Exchanges : xs[i].pc = "idle"

\* The fixed body handle answers with; the Response has the default status.
Placeholder == [status |-> 200, kind |-> "placeholder"]

\* A handler that passes the request on to requestOllama.
handleDelegates ==
  /\ Quiet
  /\ entry' = "route"
  /\ spc' = "auth"
  /\ UNCHANGED <<backendLines, body, out, relayed, jsonResponse>>
  /\ UNCHANGED <<authCalls, backendRequests, response, sTimerArmed, reqStream,
                 backendStatus, failure, request, pairVars>>
  /\ UNCHANGED clientVars

\* GET and POST: handle answers every request with the placeholder.
handle ==
  /\ Quiet
  /\ entry' = "route"
  /\ response' = Placeholder
  /\ spc' = "returned"
  /\ UNCHANGED <<backendLines, body, out, relayed, jsonResponse>>
  /\ UNCHANGED <<authCalls, backendRequests, sTimerArmed, reqStream,
                 backendStatus, failure, request, pairVars>>
  /\ UNCHANGED clientVars

\* requestOllama is called (it is exported; the route does not call it).
requestOllama ==
  /\ Quiet
  /\ entry' = "requestOllama"
  /\ spc' = "auth"
  /\ UNCHANGED <<backendLines, body, out, relayed, jsonResponse>>
  /\ UNCHANGED <<authCalls, backendRequests, response, sTimerArmed, reqStream,
                 backendStatus, failure, request, pairVars>>
  /\ UNCHANGED clientVars

\* An auth check whose result is ignored.
AuthNeverRejects(authResult) == FALSE

\* if (authResult.error)
AuthRejects(authResult) == authResult.error

\* auth(req, serverConfig) and the 401 answer when it reports an error.
authCheck ==
  /\ spc = "auth"
  /\ \E authResult \in [error : BOOLEAN] :
       /\ authCalls' = Append(authCalls, authResult)
       /\ IF AuthRejects(authResult)
          THEN /\ response' = [status |-> 401, kind |-> "auth"]
               /\ spc' = "returned"
          ELSE /\ spc' = "body"
               /\ UNCHANGED response
  /\ UNCHANGED <<backendLines, body, out, relayed, jsonResponse>>
  /\ UNCHANGED <<entry, backendRequests, sTimerArmed, reqStream,
                 backendStatus, failure, request, pairVars>>
  /\ UNCHANGED clientVars

\* requestBody.stream ?? true
StreamOrDefault(asked) == asked # "false"

\* req.json(), the timer, ollamaRequest and fetch(fetchUrl, fetchOptions).
\* A request body that is not JSON throws into the catch block before any
\* backend call.
sendRequest ==
  /\ spc = "body"
  /\ \E asked \in {"unset", "true", "false", "invalid"} :
       IF asked = "invalid"
       THEN /\ response' = [status |-> 500, kind |-> "error"]
            /\ spc' = "returned"
            /\ UNCHANGED <<sTimerArmed, reqStream, backendRequests>>
       ELSE /\ sTimerArmed' = TRUE
            /\ reqStream' = [asked |-> asked, stream |-> StreamOrDefault(asked)]
            /\ backendRequests' = backendRequests + 1
            /\ spc' = "fetching"
            /\ UNCHANGED response
  /\ UNCHANGED <<backendLines, body, out, relayed, jsonResponse>>
  /\ UNCHANGED <<entry, authCalls, backendStatus, failure, request, pairVars>>
  /\ UNCHANGED clientVars

BackendStatuses == {200, 404, 500}

\* A status test that lets every backend response through.
BackendAlwaysOk(st) == TRUE

\* res.ok of the backend response.
BackendOk(st) == st >= 200 /\ st <= 299

\* fetch resolves: clearTimeout, then the branch on res.ok and on
\* ollamaRequest.stream.  The streaming branch returns the Response at once
\* and start() begins to read.
backendFetched ==
  /\ spc = "fetching"
  /\ sTimerArmed' = FALSE
  /\ \E st \in BackendStatuses :
       /\ backendStatus' = st
       /\ IF ~BackendOk(st)
          THEN /\ spc' = "text"
               /\ UNCHANGED <<response, backendLines, body>>
          ELSE IF reqStream.stream
          THEN /\ spc' = "reading"
               /\ response' = [status |-> 200, kind |-> "stream"]
               /\ backendLines' \in SeqsUpTo(BackendLineSet, MaxLines)
               /\ body' = Wire(backendLines')
          ELSE /\ spc' = "json"
               /\ UNCHANGED <<response, backendLines, body>>
  /\ UNCHANGED <<out, relayed, jsonResponse>>
  /\ UNCHANGED <<entry, authCalls, backendRequests, reqStream, failure, request, pairVars>>
  /\ UNCHANGED clientVars

\* !res.ok: res.text() resolves and the error object is returned with the
\* backend's status.
errorResponse ==
  /\ spc = "text"
  /\ response' = [status |-> backendStatus, kind |-> "error"]
  /\ spc' = "returned"
  /\ UNCHANGED <<backendLines, body, out, relayed, jsonResponse>>
  /\ UNCHANGED <<entry, authCalls, backendRequests, sTimerArmed, reqStream,
                 backendStatus, failure, request, pairVars>>
  /\ UNCHANGED clientVars

\* Non-streaming branch: res.json() resolves and openAIResponse is returned.
completionResponse ==
  /\ spc = "json"
  /\ response' = [status |-> 200, kind |-> "completion"]
  /\ spc' = "returned"
  /\ UNCHANGED <<backendLines, body, out, relayed, jsonResponse>>
  /\ UNCHANGED <<entry, authCalls, backendRequests, sTimerArmed, reqStream,
                 backendStatus, failure, request, pairVars>>
  /\ UNCHANGED clientVars

\* The catch block: fetch, res.text() or res.json() rejected.  clearTimeout
\* is skipped when it was fetch that rejected.
requestCatch ==
  /\ spc \in {"fetching", "text", "json"}
  /\ failure' = IF spc = "fetching" THEN "fetch" ELSE "read"
  /\ response' = [status |-> 500, kind |-> "error"]
  /\ spc' = "returned"
  /\ UNCHANGED <<backendLines, body, out, relayed, jsonResponse>>
  /\ UNCHANGED <<entry, authCalls, backendRequests, sTimerArmed, reqStream,
                 backendStatus, request, pairVars>>
  /\ UNCHANGED clientVars

\* timeoutId fires: controller.abort(), which rejects a pending fetch.
serverTimeout ==
  /\ sTimerArmed
  /\ sTimerArmed' = FALSE
  /\ IF spc = "fetching"
     THEN /\ failure' = "fetch"
          /\ response' = [status |-> 500, kind |-> "error"]
          /\ spc' = "returned"
     ELSE UNCHANGED <<failure, response, spc>>
  /\ UNCHANGED <<backendLines, body, out, relayed, jsonResponse>>
  /\ UNCHANGED <<entry, authCalls, backendRequests, reqStream,
                 backendStatus, request, pairVars>>
  /\ UNCHANGED clientVars

\* ------------------------------------------- client: the call of chat()
\* The floor of Math.max(modelConfig.max_tokens, 1024).
TokenFloor == 1024

\* A JavaScript number, or undefined, or NaN.
Num(n) == [t |-> "num", v |-> n]
Undefined == [t |-> "undefined", v |-> 0]
NaN == [t |-> "NaN", v |-> 0]

\* The values modelConfig.max_tokens can have.
MaxTokensSet == {Undefined, Num(1000), Num(TokenFloor), Num(4000)}

\* Math.max(a, b) for a number b: ToNumber(undefined) is NaN, and NaN wins.
MathMax(a, b) ==
  IF a.t # "num" THEN NaN
  ELSE IF a.v >= b THEN Num(a.v) ELSE Num(b)

\* !!options.config.stream
Truthy(flag) == flag = "true"

\* chat() up to the request: requestPayload, shouldStream, the controller,
\* the timer, and fetchEventSource or fetch.
chat ==
  /\ Quiet
  /\ \E flag \in {"unset", "true", "false"}, tokens \in MaxTokensSet :
       /\ request' = [stream |-> flag, max_tokens |-> MathMax(tokens, TokenFloor)]
       /\ shouldStream' = Truthy(flag)
  /\ timerArmed' = TRUE
  /\ cpc' = "fetch"
  /\ UNCHANGED <<wired, res, msgIdx, responseText, finished, aborted,
                 onFinishCalls, onUpdateCalls, onErrorCalls, handled>>
  /\ UNCHANGED serverVars
  /\ UNCHANGED <<prefixVars, pairVars>>

\* ---------------------------------------- two concurrent chat() exchanges
\* The letter the fragments of exchange i's response are made of.
OwnLetter(i) == IF i = 1 THEN "a" ELSE "b"

IdleExchange ==
  [pc |-> "idle", body |-> <<>>, idx |-> 0, finished |-> FALSE, aborted |-> FALSE,
   timer |-> FALSE, finishCalls |-> <<>>, updates |-> <<>>, errors |-> 0]

\* The message data of an event-stream response to exchange i.
PairMsgSet(i) ==
  {<<"[DONE]">>, JSONStringify([kind |-> "c", content |-> <<OwnLetter(i)>>, flag |-> FALSE])}

\* One responseText variable for every call (an instance field, say).
SharedCell(i) == 1

\* `let responseText` is a local of the call: each exchange has its own.
Cell(i) == i

\* No single call is in progress on either side.
PairGround ==
  /\ spc = "idle"
  /\ cpc = "idle"
  /\ entry = "none"
  /\ request = NoRequest

\* finish() of exchange i.
PairFinished(i) ==
  [xs[i] EXCEPT !.finishCalls = finish(xs[i].finished, xs[i].finishCalls, cells[Cell(i)]),
                !.finished = TRUE]

\* chat() of exchange i in streaming mode, up to fetchEventSource.
pairChat(i) ==
  /\ PairGround
  /\ xs[i].pc = "idle"
  /\ xs' = [xs EXCEPT ![i] = [IdleExchange EXCEPT !.pc = "fetch", !.timer = TRUE]]
  /\ cells' = [cells EXCEPT ![Cell(i)] = <<>>]
  /\ UNCHANGED <<serverVars, clientVars, prefixVars, request>>

\* onopen of exchange i for a 200 event-stream response.
pairOpen(i) ==
  /\ xs[i].pc = "fetch"
  /\ \E b \in SeqsUpTo(PairMsgSet(i), MaxMsgs) :
       xs' = [xs EXCEPT ![i] = [xs[i] EXCEPT !.pc = "stream", !.timer = FALSE, !.body = b]]
  /\ UNCHANGED <<serverVars, clientVars, prefixVars, request, cells>>

\* onmessage of exchange i.
pairMessage(i) ==
  /\ xs[i].pc = "stream"
  /\ xs[i].idx < Len(xs[i].body)
  /\ LET data == xs[i].body[xs[i].idx + 1]
         delta == IF JSONValid(data) THEN DeltaContent(JSONParse(data)) ELSE <<>>
     IN IF data = <<"[DONE]">> \/ xs[i].finished
        THEN /\ xs' = [xs EXCEPT ![i] = [PairFinished(i) EXCEPT !.idx = @ + 1]]
             /\ UNCHANGED cells
        ELSE IF delta # <<>>
        THEN /\ cells' = [cells EXCEPT ![Cell(i)] = @ \o delta]
             /\ xs' = [xs EXCEPT ![i] =
                         [xs[i] EXCEPT !.idx = @ + 1,
                                       !.updates = Append(@, [text |-> cells'[Cell(i)],
                                                               delta |-> delta])]]
        ELSE /\ xs' = [xs EXCEPT ![i] = [xs[i] EXCEPT !.idx = @ + 1]]
             /\ UNCHANGED cells
  /\ UNCHANGED <<serverVars, clientVars, prefixVars, request>>

\* onclose of exchange i.
pairClose(i) ==
  /\ xs[i].pc = "stream"
  /\ xs[i].idx = Len(xs[i].body)
  /\ xs' = [xs EXCEPT ![i] = [PairFinished(i) EXCEPT !.pc = "closed"]]
  /\ UNCHANGED <<serverVars, clientVars, prefixVars, request, cells>>

\* controller.abort() of exchange i: signal.onabort = finish.
PairAborted(i) ==
  [PairFinished(i) EXCEPT !.aborted = TRUE,
                          !.pc = IF @ \in {"fetch", "stream"} THEN "aborted" ELSE @]

\* The caller aborts exchange i.
pairAbort(i) ==
  /\ xs[i].pc # "idle"
  /\ ~xs[i].aborted
  /\ xs' = [xs EXCEPT ![i] = PairAborted(i)]
  /\ UNCHANGED <<serverVars, clientVars, prefixVars, request, cells>>

\* requestTimeoutId of exchange i fires.
pairTimeout(i) ==
  /\ xs[i].timer
  /\ xs' = [xs EXCEPT ![i] =
              [(IF xs[i].aborted THEN xs[i] ELSE PairAborted(i)) EXCEPT !.timer = FALSE]]
  /\ UNCHANGED <<serverVars, clientVars, prefixVars, request, cells>>

\* onerror of exchange i.
pairError(i) ==
  /\ xs[i].pc \in {"fetch", "stream"}
  /\ xs' = [xs EXCEPT ![i] = [xs[i] EXCEPT !.errors = @ + 1, !.pc = "failed"]]
  /\ UNCHANGED <<serverVars, clientVars, prefixVars, request, cells>>

\* ------------------------------------------------------- specifications
\* Nothing of the request prefix, of the call of chat() or of a second
\* exchange is in play.
ExtraIdle ==
  /\ entry = "none"
  /\ authCalls = <<>>
  /\ backendRequests = 0
  /\ response = NoServerResponse
  /\ sTimerArmed = FALSE
  /\ reqStream = NoRequestBody
  /\ backendStatus = 0
  /\ failure = "none"
  /\ request = NoRequest
  /\ xs = [i \in Exchanges |-> IdleExchange]
  /\ cells = [i \in Exchanges |-> <<>>]

\* The route alone, the client alone against any peer, the client reading
\* the route's relay, or nothing called yet.
Init ==
  \/ ServerStart /\ ClientIdle /\ ExtraIdle
  \/ ServerIdle /\ ClientStart(FALSE) /\ ExtraIdle
  \/ ServerStart /\ ClientStart(TRUE) /\ ExtraIdle
  \/ ServerIdle /\ ClientIdle /\ ExtraIdle

Next ==
  \/ \E n \in 1..Len(body) : RelayRead(n)
  \/ RelayClose
  \/ RelayError
  \/ RespondJson
  \/ Abort
  \/ Timeout
  \/ onopen
  \/ onopenTextPlain
  \/ onopenErrorText
  \/ onopenErrorJson
  \/ onmessage
  \/ onclose
  \/ onerror
  \/ fetchResolved
  \/ fetchJson
  \/ chatCatch
  \/ handle
  \/ requestOllama
  \/ authCheck
  \/ sendRequest
  \/ backendFetched
  \/ errorResponse
  \/ completionResponse
  \/ requestCatch
  \/ serverTimeout
  \/ chat
  \/ \E i \in Exchanges : pairChat(i)
  \/ \E i \in Exchanges : pairOpen(i)
  \/ \E i \in Exchanges : pairMessage(i)
  \/ \E i \in Exchanges : pairClose(i)
  \/ \E i \in Exchanges : pairAbort(i)
  \/ \E i \in Exchanges : pairTimeout(i)
  \/ \E i \in Exchanges : pairError(i)

Spec == Init /\ [][Next]_vars

\* ---------------------------------------------------------------- claims
\* The data of an enqueued `data: ...\n\n` chunk.
DataOf(chunk) == SubSeq(chunk, 2, Len(chunk) - 2)

\* The enqueued chunks that are events (not the sentinel), in order.
Events(o) == SelectSeq(o, LAMBDA ch : ch # DoneChunk)

\* The delta.content values of the events of o, in order.
Deltas(o) == [i \in 1..Len(Events(o)) |-> JSONParse(DataOf(Events(o)[i])).content]

\* Number of sentinels among the enqueued chunks.
DoneCount(o) == Len(SelectSeq(o, LAMBDA ch : ch = DoneChunk))

\* The message.content fields of the backend's records, in order.
BackendContents == [i \in 1..Len(backendLines) |-> MessageContent(JSONParse(backendLines[i]))]

\* Every line is a record and exactly the last one has done set.
WellFormed ==
  /\ Len(backendLines) >= 1
  /\ \A i \in 1..Len(backendLines) :
       /\ JSONValid(backendLines[i])
       /\ JSONParse(backendLines[i]).flag <=> (i = Len(backendLines))

\* C1: when the relay has closed its output after a well-formed backend
\* stream, the concatenation of the delta.content values of the emitted
\* events equals the concatenation of the records' message.content fields,
\* however the transport split the stream into read chunks.
C1_ContentPreserved ==
  (spc = "closed" /\ WellFormed) => Concat(Deltas(out)) = Concat(BackendContents)

\* C2: when the streamed exchange has ended (the output closed or errored),
\* the sentinel has been written exactly once and it is the last chunk.
C2_SentinelExactlyOnce ==
  spc \in {"closed", "errored"} =>
    /\ DoneCount(out) = 1
    /\ out[Len(out)] = DoneChunk

\* C3: in streaming mode options.onFinish is called at most once, the flag
\* finished says whether it has been, and no step calls it again once it has.
C3_FinishAtMostOnce ==
  shouldStream =>
    /\ Len(onFinishCalls) <= 1
    /\ finished <=> (Len(onFinishCalls) = 1)

\* C3 witness: the exchange was finalized by onclose and the caller aborted
\* afterwards as well, with a single onFinish call.
C3_Witness ==
  /\ shouldStream
  /\ cpc = "closed"
  /\ aborted
  /\ msgIdx >= 1
  /\ Len(onFinishCalls) = 1

\* C4: when onerror has ended a streaming exchange, the error has been
\* reported and the exchange finalized with the text accumulated so far.
C4_ErrorFinalizes ==
  (shouldStream /\ cpc = "failed") =>
    /\ onErrorCalls >= 1
    /\ onFinishCalls = <<responseText>>

\* The deltas a message sequence holds: the non-empty delta contents of the
\* messages that parse, in order.
MessageDeltas(ms) ==
  LET good == SelectSeq(ms, LAMBDA d : JSONValid(d) /\ DeltaContent(JSONParse(d)) # <<>>)
  IN [i \in 1..Len(good) |-> DeltaContent(JSONParse(good[i]))]

C6_CancelBeforeResponse ==
  (cpc # "idle" /\ aborted /\ res = NoResponse) => onFinishCalls = << <<>> >>

\* C7: for the same backend content the streaming path and the
\* non-streaming path give the same final text, on the server (deltas of the
\* events against choices[0].message.content) and on the client reading the
\* relay (text passed to onFinish against extractMessage of the completion).
C7_StreamingEqualsNonStreaming ==
  (spc = "closed" /\ WellFormed /\ jsonResponse # <<>>) =>
    /\ Concat(Deltas(out)) = JSONParse(jsonResponse).content
    /\ (wired /\ cpc = "closed" /\ ~aborted) =>
         onFinishCalls = <<extractMessage(JSONParse(jsonResponse))>>

\* C8: when the client has read the relay's response to its end, the text
\* passed to onFinish is the concatenation of the relayed content fragments
\* and each non-empty fragment went through onUpdate, in order.
C8_EndToEndText ==
  (wired /\ cpc = "closed" /\ ~aborted) =>
    /\ onFinishCalls = <<Concat(Deltas(out))>>
    /\ [i \in 1..Len(onUpdateCalls) |-> onUpdateCalls[i].delta]
         = SelectSeq(Deltas(out), LAMBDA d : d # <<>>)

\* C9: once the sentinel has been emitted the relay emits nothing more.
C9_NothingAfterSentinel ==
  [][DoneCount(out) >= 1 => out' = out]_vars

\* The text is the notice followed by extra, with only separators around.
NoticeThenBody(text, extra) ==
  /\ Len(text) > Len(extra)
  /\ SubSeq(text, Len(text) - Len(extra) + 1, Len(text)) = extra
  /\ \E i \in 1..(Len(text) - Len(extra)) :
       /\ text[i] = Unauthorized[1]
       /\ \A j \in 1..(Len(text) - Len(extra)) : j # i => text[j] = NL

\* C10: a 401 response is finalized with one final text, the unauthorized
\* notice followed by the body (pretty-printed when JSON), with no onUpdate.
C10_UnauthorizedNotice ==
  (shouldStream /\ res.status = 401 /\ finished /\ ~aborted) =>
    /\ onUpdateCalls = <<>>
    /\ Len(onFinishCalls) = 1
    /\ NoticeThenBody(onFinishCalls[1],
                      IF JSONValid(res.body) THEN prettyObject(JSONParse(res.body))
                      ELSE res.body)

\* C11: the auth check comes first: when it reported an error the call has
\* returned 401 with the auth result and no backend request was ever sent,
\* and a backend request is only sent after an auth check without error.
C11_AuthBeforeBackend ==
  entry = "requestOllama" =>
    /\ spc # "auth" => Len(authCalls) = 1
    /\ (\E k \in 1..Len(authCalls) : authCalls[k].error) =>
         /\ backendRequests = 0
         /\ spc = "returned"
         /\ response = [status |-> 401, kind |-> "auth"]
    /\ backendRequests > 0 => (Len(authCalls) = 1 /\ ~authCalls[1].error)

\* C11 witness: the auth check reported an error and the call has returned.
C11_Witness ==
  /\ entry = "requestOllama"
  /\ authCalls = <<[error |-> TRUE]>>
  /\ response.status = 401

\* The status is one of the success statuses 200 to 299.
SuccessStatus(st) == st \in 200..299

C13_TimerDiscipline ==
  /\ timerArmed => (cpc = "fetch" /\ res = NoResponse)
  /\ cpc \in {"closed", "failed", "aborted", "ns_done"} => ~timerArmed
  /\ sTimerArmed => spc = "fetching"

\* The tokens of a text all belong to exchange i.
OwnText(i, text) == \A k \in 1..Len(text) : text[k] = OwnLetter(i)

\* What exchange i has delivered is made of its own fragments, each update
\* extends the one before by its fragment, and onFinish was called at most
\* once, with the text accumulated by then.
OwnDeliveries(i) ==
  /\ Len(xs[i].finishCalls) <= 1
  /\ \A k \in 1..Len(xs[i].finishCalls) : OwnText(i, xs[i].finishCalls[k])
  /\ \A k \in 1..Len(xs[i].updates) :
       /\ OwnText(i, xs[i].updates[k].text)
       /\ xs[i].updates[k].text =
            (IF k = 1 THEN <<>> ELSE xs[i].updates[k - 1].text) \o xs[i].updates[k].delta

\* C14: with two exchanges in flight each one's text is made only of its own
\* fragments, and a step that aborts or finalizes one exchange leaves the
\* other's abort signal, finished flag and onFinish calls as they were.
C14_ExchangesIndependent ==
  /\ [](\A i \in Exchanges : OwnDeliveries(i))
  /\ [][\A i \in Exchanges : \A j \in Exchanges \ {i} :
          (xs'[i].aborted # xs[i].aborted \/ xs'[i].finished # xs[i].finished)
            => /\ xs'[j].aborted = xs[j].aborted
               /\ xs'[j].finished = xs[j].finished
               /\ xs'[j].finishCalls = xs[j].finishCalls]_vars

\* C14 witness: both exchanges have received a fragment, the first was
\* aborted and finalized, the second is still streaming.
C14_Witness ==
  /\ xs[1].aborted
  /\ xs[1].finishCalls = << <<"a">> >>
  /\ xs[2].pc = "stream"
  /\ ~xs[2].finished
  /\ Len(xs[2].updates) = 1

\* C15: an unspecified streaming flag means streaming on both sides, and
\* only an explicit false selects the non-streaming path.
C15_StreamDefaultsTrue ==
  /\ reqStream.asked # "none" => (reqStream.stream <=> reqStream.asked # "false")
  /\ request.stream # "none" => (shouldStream <=> request.stream # "false")

\* C16: max_tokens of the request payload is a number of at least 1024.
C16_MaxTokensFloor ==
  request # NoRequest =>
    (request.max_tokens.t = "num" /\ request.max_tokens.v >= TokenFloor)

\* The cumulative text of the last onUpdate call, empty when there was none.
LastCumulative ==
  IF onUpdateCalls = <<>> THEN <<>> ELSE onUpdateCalls[Len(onUpdateCalls)].text

\* C17: every onUpdate call carries the previous cumulative text plus its
\* fragment, and when a [DONE] message, the close of the stream, an abort or
\* the timeout finalizes the exchange, onFinish gets the last cumulative text.
C17_AppendOnly ==
  /\ [](\A k \in 1..Len(onUpdateCalls) :
          onUpdateCalls[k].text =
            (IF k = 1 THEN <<>> ELSE onUpdateCalls[k - 1].text) \o onUpdateCalls[k].delta)
  /\ [][(/\ shouldStream
         /\ Len(onFinishCalls') > Len(onFinishCalls)
         /\ (cpc \in {"fetch", "stream"} \/ aborted' # aborted))
          => onFinishCalls'[Len(onFinishCalls')] = LastCumulative]_vars

\* C17 witness: two fragments were delivered and an abort finalized the
\* exchange with both.
C17_Witness ==
  /\ Len(onUpdateCalls) = 2
  /\ aborted
  /\ cpc = "aborted"
  /\ onFinishCalls = <<onUpdateCalls[2].text>>

\* The chunk is one event in the fixed envelope.
IsEvent(ch) ==
  /\ Len(ch) >= 7
  /\ ch[1] = "data: "
  /\ ch[Len(ch) - 1] = NL /\ ch[Len(ch)] = NL
  /\ \A k \in 2..Len(ch) : ch[k] # "data: "
  /\ JSONValid(DataOf(ch))
  /\ JSONParse(DataOf(ch)).kind = "c"

\* The lines are records, and what the relay owes for them when they come
\* in one chunk: one event a record, up to the first with done set, with
\* finish_reason null before it and stop on it, and then the sentinel.
AllRecords(lines) == \A k \in 1..Len(lines) : JSONValid(lines[k])
ExpectedOut(lines) ==
  LET isDone(k) == lines[k][Len(lines[k]) - 1] = "T"
      n == IF \E k \in 1..Len(lines) : isDone(k)
           THEN CHOOSE k \in 1..Len(lines) : isDone(k) /\ \A j \in 1..(k - 1) : ~isDone(j)
           ELSE Len(lines)
      event(k) == <<"data: ", "{", "c">> \o SubSeq(lines[k], 3, Len(lines[k]) - 2)
                    \o <<(IF isDone(k) THEN "T" ELSE "F"), "}", NL, NL>>
  IN [k \in 1..n |-> event(k)]
       \o (IF n >= 1 /\ isDone(n) THEN <<DoneChunk>> ELSE <<>>)

\* C18: every chunk the relay enqueues is one event or the sentinel, there
\* is one event for each parsed record, the sentinel stands only directly
\* after an event whose finish_reason is stop and every such event is
\* followed by it; records read in one chunk give their events in order.
C18_Envelope ==
  /\ [](/\ Len(Events(out)) = Len(relayed)
        /\ \A k \in 1..Len(out) :
             IF out[k] = DoneChunk
             THEN k > 1 /\ out[k - 1] # DoneChunk /\ JSONParse(DataOf(out[k - 1])).flag
             ELSE /\ IsEvent(out[k])
                  /\ JSONParse(DataOf(out[k])).flag => (k < Len(out) /\ out[k + 1] = DoneChunk))
  /\ [][(/\ spc = "reading" /\ out = <<>> /\ body = Wire(backendLines)
         /\ body # <<>> /\ body' = <<>>
         /\ AllRecords(backendLines))
          => out' = ExpectedOut(backendLines)]_vars

\* C18 witness: two records, the second with done set, were relayed.
C18_Witness ==
  /\ Len(out) = 3
  /\ out[3] = DoneChunk
  /\ Deltas(out) = << <<"a">>, <<"b">> >>
  /\ ~JSONParse(DataOf(out[1])).flag

\* C19: once finished is set no step calls onUpdate or onFinish again.
C19_QuietAfterFinish ==
  [][finished => (onUpdateCalls' = onUpdateCalls /\ onFinishCalls' = onFinishCalls)]_vars

\* C19 witness: the sentinel came first and a message with a delta after it
\* was handed to onmessage without an onUpdate call.
C19_Witness ==
  /\ cpc = "stream"
  /\ finished
  /\ msgIdx = 2
  /\ SSEMessages(BodyText)[1] = <<"[DONE]">>
  /\ JSONValid(SSEMessages(BodyText)[2])
  /\ DeltaContent(JSONParse(SSEMessages(BodyText)[2])) # <<>>
  /\ onUpdateCalls = <<>>
  /\ onFinishCalls = << <<>> >>

\* C20: a request that came in through GET or POST has been answered with
\* the placeholder and status 200, with no auth check, no backend request
\* and nothing of requestOllama's translation or relay.
C20_PlaceholderOnly ==
  entry = "route" =>
    /\ spc = "returned"
    /\ response = Placeholder
    /\ authCalls = <<>>
    /\ backendRequests = 0
    /\ reqStream = NoRequestBody
    /\ out = <<>>

\* C20 witness: handle has answered a request.
C20_Witness ==
  /\ entry = "route"
  /\ response.kind = "placeholder"
  /\ response.status = 200

====
